---- MODULE Spec2Model ----
(***************************************************************************)
(* Model of maddy's authenticity-verification layer:                       *)
(*   - internal/dns/dnssec.go : ExtResolver (DNSSEC-aware lookups)         *)
(*   - verify_dkim check      : Check / dkimCheckState.CheckBody           *)
(* SpecDNS drives the resolver, SpecDKIM drives the DKIM check.            *)
(***************************************************************************)
EXTENDS Integers, Sequences, FiniteSets, TLC

VARIABLES
  \* ---- ExtResolver ----
  Servers,      \* e.Cfg.Servers
  pc,           \* position of the one lookup in flight
  fn,           \* AuthLookup* function being executed
  msg,          \* the query message of the current exchange
  idx,          \* position of the range loop of exchange (1-based)
  brk,          \* exchange's loop was left by break
  resp,         \* exchange: var resp *dns.Msg
  lastErr,      \* exchange: var lastErr error
  ad,           \* AuthLookupIPAddr: ad after the AAAA leg
  addrs,        \* AuthLookupIPAddr: addrs after the AAAA leg
  ret,          \* (ad, records, err) returned by the AuthLookup* call
  ctx,          \* state of the caller's context
  \* history of the lookup in flight (not program state)
  wire,         \* raw message and server of the latest ExchangeContext call
  contacted,    \* indices of the servers contacted by the current exchange
  queries,      \* question types for which exchange was entered
  legs,         \* what exchange returned to AuthLookupIPAddr, leg by leg
  ctxFailedAt,  \* index of the server whose exchange the context failed, or 0
  \* ---- verify_dkim ----
  c,            \* the Check (configuration)
  dpc,          \* position of the CheckBody call in flight
  nSigs,        \* number of DKIM-Signature fields of the header
  opens,        \* number of body.Open() calls of this CheckBody
  openReaders,  \* readers obtained from body.Open() and not closed
  verifyCalls,  \* number of dkim.Verify calls of this CheckBody
  verifications,\* what dkim.Verify returned
  err,          \* CheckBody: err
  k,            \* CheckBody: position of the range loop (1-based)
  res,          \* CheckBody: res
  goodSigs,     \* CheckBody: goodSigs
  result,       \* the module.CheckResult returned by CheckBody
  other         \* a second CheckBody invocation on the same Check, while
                \* it is not the one running: its dkimCheckState and locals

dnsVars == <<Servers, pc, fn, msg, idx, brk, resp, lastErr, ad, addrs, ret,
             ctx, wire, contacted, queries, legs, ctxFailedAt>>
dkimVars == <<c, dpc, nSigs, opens, openReaders, verifyCalls, verifications,
              err, k, res, goodSigs, result, other>>
vars == <<dnsVars, dkimVars>>

\* ---- bounds ----
MaxServers == 2
MaxSigs == 2

\* Go's nil (pointer, error, slice)
Nil == [nil |-> TRUE]

(***************************************************************************)
(* ExtResolver                                                             *)
(***************************************************************************)

\* server addresses that may appear in resolv.conf or in the override
Addrs == {"127.0.0.1", "::1", "192.0.2.53", "localhost"}

\* net.ParseIP: the 16-byte form of the address, Nil when addr is no IP literal
ParseIP(addr) ==
  CASE addr = "127.0.0.1"  -> <<0,0,0,0,0,0,0,0,0,0,255,255,127,0,0,1>>
    [] addr = "192.0.2.53" -> <<0,0,0,0,0,0,0,0,0,0,255,255,192,0,2,53>>
    [] addr = "::1"        -> <<0,0,0,0,0,0,0,0,0,0,0,0,0,0,0,1>>
    [] OTHER               -> Nil

\* net.IP.IsLoopback: 127.0.0.0/8 for an IPv4(-mapped) address, ::1 otherwise
IsLoopbackIP(ip) ==
  IF SubSeq(ip, 1, 12) = <<0,0,0,0,0,0,0,0,0,0,255,255>>
  THEN ip[13] = 127
  ELSE ip = <<0,0,0,0,0,0,0,0,0,0,0,0,0,0,0,1>>

isLoopback_Trusting(addr) ==
  LET ip == ParseIP(addr) IN
  IF ip = Nil THEN FALSE ELSE TRUE

isLoopback(addr) ==
  LET ip == ParseIP(addr) IN
  IF ip = Nil THEN FALSE ELSE IsLoopbackIP(ip)

\* resource records the servers may put in an answer section
RRTypes == {"PTR", "MX", "TXT", "TLSA", "AAAA", "A"}

RROf(t, n) ==
  CASE t = "PTR"  -> [Rrtype |-> "PTR", Ptr |-> IF n = 1 THEN "mx1.example." ELSE "mx2.example."]
    [] t = "MX"   -> [Rrtype |-> "MX", Mx |-> IF n = 1 THEN "mx1.example." ELSE "mx2.example.",
                      Preference |-> 10 * n]
    [] t = "TXT"  -> [Rrtype |-> "TXT", Txt |-> IF n = 1 THEN <<"v=spf1 ", "-all">> ELSE <<"k=rsa">>]
    [] t = "TLSA" -> [Rrtype |-> "TLSA", Usage |-> 3, Selector |-> 1, MatchingType |-> 1,
                      Certificate |-> IF n = 1 THEN "ab01" ELSE "cd02"]
    [] t = "AAAA" -> [Rrtype |-> "AAAA", AAAA |-> IF n = 1 THEN "2001:db8::1" ELSE "2001:db8::2"]
    [] t = "A"    -> [Rrtype |-> "A", A |-> IF n = 1 THEN "192.0.2.1" ELSE "192.0.2.2"]
    [] OTHER      -> [Rrtype |-> "CNAME", Target |-> "alias.example."]

\* a record of another type than the one asked for
ForeignRR(t) ==
  CASE t = "AAAA" -> RROf("A", 1)
    [] t = "A"    -> RROf("AAAA", 2)
    [] OTHER      -> RROf("CNAME", 1)

\* answer sections a server may send to a question of type t
Answers(t) ==
  { <<>>,
    <<RROf(t, 1)>>,
    <<ForeignRR(t), RROf(t, 1)>>,
    <<RROf(t, 2), RROf(t, 1)>> }

FailRcodes == {"RcodeFormatError", "RcodeServerFailure", "RcodeNameError",
               "RcodeNotImplemented", "RcodeRefused"}

\* what e.cl.ExchangeContext may return for a question of type t: (resp, err)
TransportErrors == {"i/o timeout", "connection refused"}
CtxErrors == {"context canceled", "context deadline exceeded"}

Error(text) == [kind |-> "transport", text |-> text]
RCodeError(name, code) == [kind |-> "RCodeError", Name |-> name, Code |-> code]

\* RCodeError.Temporary
Temporary_OrRefused(e) == e.Code \in {"RcodeServerFailure", "RcodeRefused"}

Temporary(e) == e.Code = "RcodeServerFailure"

\* IsNotFound
IsNotFound_Never(e) ==
  IF e.kind = "DNSError" THEN e.IsNotFound ELSE FALSE

IsNotFound(e) ==
  IF e.kind = "DNSError" THEN e.IsNotFound
  ELSE IF e.kind = "RCodeError" THEN e.Code = "RcodeNameError"
  ELSE FALSE

Msg(rcode, adFlag, answer) ==
  [Rcode |-> rcode, AuthenticatedData |-> adFlag, Answer |-> answer]

Exchanges(t) ==
  { [resp |-> Nil, err |-> Error(e)] : e \in TransportErrors \cup CtxErrors }
  \cup { [resp |-> Msg(rc, FALSE, <<>>), err |-> Nil] : rc \in FailRcodes }
  \cup { [resp |-> Msg("RcodeSuccess", a, ans), err |-> Nil] :
           a \in BOOLEAN, ans \in Answers(t) }

\* dns.Fqdn: the name with a trailing dot
Fqdn(name) ==
  CASE name = "example.org"  -> "example.org."
    [] name = "example.org." -> "example.org."
    [] name = "_25._tcp.example.org" -> "_25._tcp.example.org."
    [] OTHER -> name

\* dns.ReverseAddr: (arpa name, err)
ReverseAddr(addr) ==
  IF addr = "192.0.2.1"
  THEN [name |-> "1.2.0.192.in-addr.arpa.", err |-> Nil]
  ELSE [name |-> "", err |-> Error("dns: unrecognized address")]

\* dns.TLSAName: (name, err)
TLSAName(domain, service, network) ==
  IF service = "25"
  THEN [name |-> "_25._tcp.example.org", err |-> Nil]
  ELSE [name |-> "", err |-> Error("unknown port")]

\* msg := new(dns.Msg); msg.SetQuestion(name, t); msg.SetEdns0(4096, false);
\* msg.AuthenticatedData = true
NewMsg(name, t) ==
  [Question |-> [Name |-> name, Qtype |-> t], Edns0 |-> TRUE, AuthenticatedData |-> TRUE]

\* one iteration of the range loop of exchange over server srv, where
\* x = (resp, err) is what e.cl.ExchangeContext returned and st = (resp, lastErr)
\* are exchange's variables before the iteration
loopBody_KeepLastErr(m, srv, x, st) ==
  IF x.err # Nil
  THEN [resp |-> x.resp, lastErr |-> x.err, brk |-> FALSE]
  ELSE IF x.resp.Rcode # "RcodeSuccess"
  THEN [resp |-> x.resp, lastErr |-> RCodeError(m.Question.Name, x.resp.Rcode), brk |-> FALSE]
  ELSE [resp |-> IF ~isLoopback(srv)
                 THEN [x.resp EXCEPT !.AuthenticatedData = FALSE]
                 ELSE x.resp,
        lastErr |-> st.lastErr, brk |-> TRUE]

loopBody_NoBreak(m, srv, x, st) ==
  IF x.err # Nil
  THEN [resp |-> x.resp, lastErr |-> x.err, brk |-> FALSE]
  ELSE IF x.resp.Rcode # "RcodeSuccess"
  THEN [resp |-> x.resp, lastErr |-> RCodeError(m.Question.Name, x.resp.Rcode), brk |-> FALSE]
  ELSE [resp |-> IF ~isLoopback(srv)
                 THEN [x.resp EXCEPT !.AuthenticatedData = FALSE]
                 ELSE x.resp,
        lastErr |-> x.err, brk |-> FALSE]

loopBody_FirstErr(m, srv, x, st) ==
  IF x.err # Nil
  THEN [resp |-> x.resp, lastErr |-> IF st.lastErr # Nil THEN st.lastErr ELSE x.err,
        brk |-> FALSE]
  ELSE IF x.resp.Rcode # "RcodeSuccess"
  THEN [resp |-> x.resp,
        lastErr |-> IF st.lastErr # Nil THEN st.lastErr
                    ELSE RCodeError(m.Question.Name, x.resp.Rcode),
        brk |-> FALSE]
  ELSE [resp |-> IF ~isLoopback(srv)
                 THEN [x.resp EXCEPT !.AuthenticatedData = FALSE]
                 ELSE x.resp,
        lastErr |-> x.err, brk |-> TRUE]

loopBody(m, srv, x, st) ==
  IF x.err # Nil
  THEN [resp |-> x.resp, lastErr |-> x.err, brk |-> FALSE]
  ELSE IF x.resp.Rcode # "RcodeSuccess"
  THEN [resp |-> x.resp, lastErr |-> RCodeError(m.Question.Name, x.resp.Rcode), brk |-> FALSE]
  ELSE [resp |-> IF ~isLoopback(srv)
                 THEN [x.resp EXCEPT !.AuthenticatedData = FALSE]
                 ELSE x.resp,
        lastErr |-> x.err, brk |-> TRUE]

\* strings.Join(txt, "")
RECURSIVE Join(_)
Join(txt) == IF txt = <<>> THEN "" ELSE Head(txt) \o Join(Tail(txt))

\* the element appended for a record of the expected type
Convert(rr) ==
  CASE rr.Rrtype = "PTR"  -> rr.Ptr
    [] rr.Rrtype = "MX"   -> [Host |-> rr.Mx, Pref |-> rr.Preference]
    [] rr.Rrtype = "TXT"  -> Join(rr.Txt)
    [] rr.Rrtype = "TLSA" -> rr
    [] rr.Rrtype = "AAAA" -> [IP |-> rr.AAAA, Zone |-> ""]
    [] rr.Rrtype = "A"    -> [IP |-> rr.A, Zone |-> ""]

\* for _, rr := range resp.Answer { x, ok := rr.(*dns.T); if !ok { continue };
\* out = append(out, ...) }
RECURSIVE Collect(_, _, _)
Collect(out, answer, t) ==
  IF answer = <<>> THEN out
  ELSE Collect(IF Head(answer).Rrtype = t THEN Append(out, Convert(Head(answer))) ELSE out,
               Tail(answer), t)

Return(a, recs, e) == [ad |-> a, recs |-> recs, err |-> e]
\* a nil pointer dereference: the goroutine panics, nothing is returned
Panic == [panic |-> "nil pointer dereference"]

\* AuthLookupAddr/MX/TXT/TLSA after  resp, err := e.exchange(ctx, msg)
SingleResult(t, r, e) ==
  IF e # Nil THEN Return(FALSE, Nil, e)
  ELSE IF r = Nil THEN Panic
  ELSE Return(r.AuthenticatedData, Collect(<<>>, r.Answer, t), Nil)

\* AuthLookupIPAddr after the exchange of the A question
IPAddrResult_LastAD(a, as, r, e) ==
  IF e # Nil THEN Return(FALSE, Nil, e)
  ELSE IF r = Nil THEN Panic
  ELSE Return(r.AuthenticatedData, Collect(as, r.Answer, "A"), e)

IPAddrResult(a, as, r, e) ==
  IF e # Nil THEN Return(FALSE, Nil, e)
  ELSE IF r = Nil THEN Panic
  ELSE Return(a /\ r.AuthenticatedData, Collect(as, r.Answer, "A"), e)

\* net.IPAddr.String
IPAddrString(a) == IF a.Zone = "" THEN a.IP ELSE a.IP \o "%" \o a.Zone

\* AuthLookupHost after  ad, addrParsed, err := e.AuthLookupIPAddr(ctx, host)
AuthLookupHostResult(r) ==
  IF r = Panic THEN Panic
  ELSE IF r.err # Nil THEN Return(FALSE, Nil, r.err)
  ELSE Return(r.ad, [j \in 1..Len(r.recs) |-> IPAddrString(r.recs[j])], Nil)

\* NewExtResolver: the server list, from resolv.conf or from the override
overrideServs == {"", "system-default", "127.0.0.1:53", "192.0.2.53:53"}
\* net.SplitHostPort
SplitHostPort(hp) ==
  CASE hp = "127.0.0.1:53"  -> [host |-> "127.0.0.1", port |-> "53"]
    [] hp = "192.0.2.53:53" -> [host |-> "192.0.2.53", port |-> "53"]

NewExtResolver(resolvConf, overrideServ) ==
  IF overrideServ # "" /\ overrideServ # "system-default"
  THEN <<SplitHostPort(overrideServ).host>>
  ELSE resolvConf

ServerLists == UNION { [1..n -> Addrs] : n \in 0..MaxServers }

NoWire == [idx |-> 0]

DNSInit ==
  /\ \E rc \in ServerLists, ov \in overrideServs : Servers = NewExtResolver(rc, ov)
  /\ pc = "idle" /\ fn = "" /\ msg = Nil
  /\ idx = 1 /\ brk = FALSE /\ resp = Nil /\ lastErr = Nil
  /\ ad = FALSE /\ addrs = Nil /\ ret = Nil
  /\ ctx = "live"
  /\ wire = NoWire /\ contacted = <<>> /\ queries = <<>> /\ legs = <<>>
  /\ ctxFailedAt = 0

\* entry of e.exchange(ctx, m): var resp *dns.Msg; var lastErr error; for ...
EnterExchange(m) ==
  /\ msg' = m
  /\ idx' = 1 /\ brk' = FALSE /\ resp' = Nil /\ lastErr' = Nil
  /\ contacted' = <<>> /\ wire' = NoWire
  /\ queries' = Append(queries, m.Question.Qtype)
  /\ pc' = "exchange"

\* an AuthLookup* call that returns r without entering exchange
ReturnEarly(r) ==
  /\ ret' = r /\ pc' = "done"
  /\ UNCHANGED <<msg, idx, brk, resp, lastErr, contacted, wire, queries>>

AuthLookupAddr ==
  /\ pc = "idle"
  /\ fn' = "AuthLookupAddr"
  /\ \E addr \in {"192.0.2.1", "bogus"} :
       LET rev == ReverseAddr(addr) IN
       IF rev.err # Nil
       THEN ReturnEarly(Return(FALSE, Nil, rev.err))
       ELSE EnterExchange(NewMsg(rev.name, "PTR")) /\ UNCHANGED ret
  /\ UNCHANGED <<Servers, ad, addrs, ctx, legs, ctxFailedAt, dkimVars>>

AuthLookupMX ==
  /\ pc = "idle"
  /\ fn' = "AuthLookupMX"
  /\ \E name \in {"example.org", "example.org."} :
       EnterExchange(NewMsg(Fqdn(name), "MX"))
  /\ UNCHANGED <<Servers, ad, addrs, ret, ctx, legs, ctxFailedAt, dkimVars>>

AuthLookupTXT ==
  /\ pc = "idle"
  /\ fn' = "AuthLookupTXT"
  /\ \E name \in {"example.org", "example.org."} :
       EnterExchange(NewMsg(Fqdn(name), "TXT"))
  /\ UNCHANGED <<Servers, ad, addrs, ret, ctx, legs, ctxFailedAt, dkimVars>>

AuthLookupTLSA ==
  /\ pc = "idle"
  /\ fn' = "AuthLookupTLSA"
  /\ \E service \in {"25", "nosuch"} :
       LET n == TLSAName("example.org", service, "tcp") IN
       IF n.err # Nil
       THEN ReturnEarly(Return(FALSE, Nil, n.err))
       ELSE EnterExchange(NewMsg(Fqdn(n.name), "TLSA")) /\ UNCHANGED ret
  /\ UNCHANGED <<Servers, ad, addrs, ctx, legs, ctxFailedAt, dkimVars>>

\* AuthLookupIPAddr up to the exchange of the AAAA question
AuthLookupIPAddr ==
  /\ pc = "idle"
  /\ fn' = "AuthLookupIPAddr"
  /\ EnterExchange(NewMsg(Fqdn("example.org"), "AAAA"))
  /\ UNCHANGED <<Servers, ad, addrs, ret, ctx, legs, ctxFailedAt, dkimVars>>

\* AuthLookupHost calls AuthLookupIPAddr
AuthLookupHost ==
  /\ pc = "idle"
  /\ fn' = "AuthLookupHost"
  /\ EnterExchange(NewMsg(Fqdn("example.org"), "AAAA"))
  /\ UNCHANGED <<Servers, ad, addrs, ret, ctx, legs, ctxFailedAt, dkimVars>>

\* the error a context in state s makes ExchangeContext return
CtxErr(s) == IF s = "canceled" THEN Error("context canceled")
             ELSE Error("context deadline exceeded")
CtxAfter(s, x) ==
  IF x.err = Error("context canceled") THEN "canceled"
  ELSE IF x.err = Error("context deadline exceeded") THEN "deadline"
  ELSE s

\* one iteration of  for _, srv := range e.Cfg.Servers  in exchange
exchangeIteration ==
  /\ pc = "exchange" /\ ~brk /\ idx <= Len(Servers)
  /\ \E x \in Exchanges(msg.Question.Qtype) :
       /\ ctx # "live" => x.err = CtxErr(ctx)
       /\ LET st == loopBody(msg, Servers[idx], x, [resp |-> resp, lastErr |-> lastErr]) IN
            /\ resp' = st.resp /\ lastErr' = st.lastErr /\ brk' = st.brk
            /\ idx' = IF st.brk THEN idx ELSE idx + 1
       /\ ctx' = CtxAfter(ctx, x)
       /\ wire' = [idx |-> idx, srv |-> Servers[idx], resp |-> x.resp, err |-> x.err]
       /\ ctxFailedAt' = IF ctxFailedAt = 0 /\ x.err \in {Error(e) : e \in CtxErrors}
                         THEN idx ELSE ctxFailedAt
  /\ contacted' = Append(contacted, idx)
  /\ UNCHANGED <<Servers, pc, fn, msg, ad, addrs, ret, queries, legs, dkimVars>>

exchangeReturned == pc = "exchange" /\ (brk \/ idx > Len(Servers))

Finish(r) ==
  /\ ret' = (IF r = Panic THEN ret ELSE r)
  /\ pc' = (IF r = Panic THEN "panic" ELSE "done")

\* AuthLookupAddr, AuthLookupMX, AuthLookupTXT, AuthLookupTLSA from the return
\* of exchange to their own return
AuthLookupReturn ==
  /\ exchangeReturned
  /\ fn \in {"AuthLookupAddr", "AuthLookupMX", "AuthLookupTXT", "AuthLookupTLSA"}
  /\ Finish(SingleResult(msg.Question.Qtype, resp, lastErr))
  /\ UNCHANGED <<Servers, fn, msg, idx, brk, resp, lastErr, ad, addrs, ctx,
                 wire, contacted, queries, legs, ctxFailedAt, dkimVars>>

Wrap(r) == IF fn = "AuthLookupHost" THEN AuthLookupHostResult(r) ELSE r

\* AuthLookupIPAddr from the return of the AAAA exchange to the A exchange
AuthLookupIPAddrSecond ==
  /\ exchangeReturned
  /\ fn \in {"AuthLookupIPAddr", "AuthLookupHost"}
  /\ msg.Question.Qtype = "AAAA"
  /\ legs' = Append(legs, [resp |-> resp, err |-> lastErr])
  /\ IF lastErr # Nil
     THEN /\ Finish(Wrap(Return(FALSE, Nil, lastErr)))
          /\ UNCHANGED <<msg, idx, brk, resp, lastErr, ad, addrs, wire, contacted, queries>>
     ELSE IF resp = Nil
     THEN /\ Finish(Panic)
          /\ UNCHANGED <<msg, idx, brk, resp, lastErr, ad, addrs, wire, contacted, queries>>
     ELSE /\ ad' = resp.AuthenticatedData
          /\ addrs' = Collect(<<>>, resp.Answer, "AAAA")
          /\ EnterExchange(NewMsg(Fqdn("example.org"), "A"))
          /\ UNCHANGED ret
  /\ UNCHANGED <<Servers, fn, ctx, ctxFailedAt, dkimVars>>

\* AuthLookupIPAddr from the return of the A exchange to its own return
AuthLookupIPAddrReturn ==
  /\ exchangeReturned
  /\ fn \in {"AuthLookupIPAddr", "AuthLookupHost"}
  /\ msg.Question.Qtype = "A"
  /\ legs' = Append(legs, [resp |-> resp, err |-> lastErr])
  /\ Finish(Wrap(IPAddrResult(ad, addrs, resp, lastErr)))
  /\ UNCHANGED <<Servers, fn, msg, idx, brk, resp, lastErr, ad, addrs, ctx,
                 wire, contacted, queries, ctxFailedAt>>
  /\ UNCHANGED dkimVars

\* the caller takes the result; the resolver is ready for the next call
NextLookup ==
  /\ pc = "done"
  /\ pc' = "idle" /\ fn' = "" /\ msg' = Nil
  /\ idx' = 1 /\ brk' = FALSE /\ resp' = Nil /\ lastErr' = Nil
  /\ ad' = FALSE /\ addrs' = Nil /\ ret' = Nil
  /\ ctx' = "live"
  /\ wire' = NoWire /\ contacted' = <<>> /\ queries' = <<>> /\ legs' = <<>>
  /\ ctxFailedAt' = 0
  /\ UNCHANGED <<Servers, dkimVars>>

DNSNext ==
  \/ AuthLookupAddr
  \/ AuthLookupMX
  \/ AuthLookupTXT
  \/ AuthLookupTLSA
  \/ AuthLookupIPAddr
  \/ AuthLookupHost
  \/ exchangeIteration
  \/ AuthLookupReturn
  \/ AuthLookupIPAddrSecond
  \/ AuthLookupIPAddrReturn
  \/ NextLookup

(***************************************************************************)
(* verify_dkim                                                             *)
(***************************************************************************)

CanonicalMIMEHeaderKey_AsWritten(f) == f

\* net/textproto.CanonicalMIMEHeaderKey on the field names used here
CanonicalMIMEHeaderKey(f) ==
  CASE f \in {"from", "From", "FROM"}          -> "From"
    [] f \in {"subject", "Subject", "SUBJECT"} -> "Subject"
    [] f \in {"date", "Date"}                  -> "Date"
    [] OTHER                                   -> f

\* check.FailAction: the fields Reject and Quarantine CheckBody reads
FailAction(reject, quarantine) == [Reject |-> reject, Quarantine |-> quarantine]

\* the default of broken_sig_action and no_sig_action: check.FailAction{}
DefaultFailAction_Reject == FailAction(TRUE, FALSE)

DefaultFailAction == FailAction(FALSE, FALSE)

\* check.FailActionDirective: the action a directive argument names
FailActionDirective(arg) ==
  CASE arg = "ignore"     -> FailAction(FALSE, FALSE)
    [] arg = "reject"     -> FailAction(TRUE, FALSE)
    [] arg = "quarantine" -> FailAction(FALSE, TRUE)

\* check.FailAction.Apply
Apply(action, r) ==
  [r EXCEPT !.Reject = @ \/ action.Reject, !.Quarantine = @ \/ action.Quarantine]

\* a directive of the configuration block: absent, or given with its argument
Absent == [given |-> FALSE]
Directive(arg) == [given |-> TRUE, arg |-> arg]

\* the configuration blocks Check.Init is given
ConfigBlocks ==
  [required_fields   : {Absent, Directive(<<"from">>)},
   allow_body_subset : {Absent, Directive(TRUE)},
   fail_open         : {Absent, Directive(TRUE)},
   broken_sig_action : {Absent, Directive("ignore"), Directive("reject"),
                        Directive("quarantine")},
   no_sig_action     : {Absent, Directive("ignore"), Directive("reject"),
                        Directive("quarantine")}]

\* Check.Init: the Check after cfg.Process() and the canonicalisation loop
CheckInit(cfg) ==
  LET requiredFields == IF cfg.required_fields.given THEN cfg.required_fields.arg
                        ELSE <<"From", "Subject">>
  IN [block           |-> cfg,
      requiredFields  |-> { CanonicalMIMEHeaderKey(requiredFields[j]) :
                              j \in 1..Len(requiredFields) },
      allowBodySubset |-> IF cfg.allow_body_subset.given THEN cfg.allow_body_subset.arg
                          ELSE FALSE,
      failOpen        |-> IF cfg.fail_open.given THEN cfg.fail_open.arg ELSE FALSE,
      brokenSigAction |-> IF cfg.broken_sig_action.given
                          THEN FailActionDirective(cfg.broken_sig_action.arg)
                          ELSE DefaultFailAction,
      noSigAction     |-> IF cfg.no_sig_action.given
                          THEN FailActionDirective(cfg.no_sig_action.arg)
                          ELSE DefaultFailAction]

\* module.CheckResult
CheckResult(reject, quarantine, reason, authResult) ==
  [Reject |-> reject, Quarantine |-> quarantine, Reason |-> reason,
   AuthResult |-> authResult]

\* exterrors.SMTPError
SMTPError(code, enh, message, e) ==
  [Code |-> code, EnhancedCode |-> enh, Message |-> message,
   CheckName |-> "verify_dkim", Err |-> e]

TemporaryErr_Permanent(e, smtpMsg) ==
  [temporary |-> FALSE, check |-> "verify_dkim", smtp_msg |-> smtpMsg, Err |-> e]

\* exterrors.WithTemporary(exterrors.WithFields(e, {check, smtp_msg}), true)
TemporaryErr(e, smtpMsg) ==
  [temporary |-> TRUE, check |-> "verify_dkim", smtp_msg |-> smtpMsg, Err |-> e]

\* authres.DKIMResult
DKIMResult(value, reason, domain, identifier) ==
  [Value |-> value, Reason |-> reason, Domain |-> domain, Identifier |-> identifier]

\* the result CheckBody builds when the header has no DKIM-Signature field
NoSigResult_NoRecord ==
  CheckResult(FALSE, FALSE, SMTPError(550, <<5, 7, 20>>, "No DKIM signatures", Nil), <<>>)

NoSigResult ==
  CheckResult(FALSE, FALSE, SMTPError(550, <<5, 7, 20>>, "No DKIM signatures", Nil),
              << DKIMResult("none", "", "", "") >>)

\* the errors of go-msgauth/dkim, by class
DkimErrors ==
  { [class |-> "failError",     text |-> "dkim: signature did not verify"],
    [class |-> "permFailError", text |-> "dkim: key revoked"],
    [class |-> "tempFailError", text |-> "dkim: key unavailable"] }

\* dkim.IsPermFail, dkim.IsTempFail: type assertions, false on a nil error
IsPermFail(e) == e # Nil /\ e.class = "permFailError"
IsTempFail(e) == e # Nil /\ e.class = "tempFailError"

\* strings.TrimPrefix(s, "dkim: ")
TrimPrefix(s) ==
  CASE s = "dkim: signature did not verify" -> "signature did not verify"
    [] s = "dkim: key revoked"              -> "key revoked"
    [] s = "dkim: key unavailable"          -> "key unavailable"
    [] OTHER                                -> s

\* the i-th signature of a message names its own domain
SigDomain(i) == CASE i = 1 -> "list.example" [] i = 2 -> "author.example"
                  [] OTHER -> "relay.example"
SigIdentifier(i) == CASE i = 1 -> "@list.example" [] i = 2 -> "a@author.example"
                      [] OTHER -> ""

HeaderKeyLists == { <<"from", "SUBJECT">>, <<"From">>, <<"Date", "Subject", "From">> }

\* dkim.Verification of the i-th signature, as dkim.Verify may return it
Verifications(i) ==
  { [Domain |-> SigDomain(i), Identifier |-> SigIdentifier(i),
     HeaderKeys |-> <<>>, BodyLength |-> -1, Err |-> e] : e \in DkimErrors }
  \cup
  { [Domain |-> SigDomain(i), Identifier |-> SigIdentifier(i),
     HeaderKeys |-> hk, BodyLength |-> bl, Err |-> Nil] :
       hk \in HeaderKeyLists, bl \in {-1, 0} }

RECURSIVE VerificationLists(_)
VerificationLists(n) ==
  IF n = 0 THEN { <<>> }
  ELSE { Append(l, v) : l \in VerificationLists(n - 1), v \in Verifications(n) }

\* res.AuthResult = append(res.AuthResult, rec)
appendResult_Prepend(rs, rec) == <<rec>> \o rs

appendResult(rs, rec) == Append(rs, rec)

\* val and reason of a verification without error, after the required-fields
\* loop and the body-length test
gates_NoBodyLimit(chk, verif) ==
  LET signedFields == { CanonicalMIMEHeaderKey(verif.HeaderKeys[j]) :
                          j \in 1..Len(verif.HeaderKeys) }
      missing == \E field \in chk.requiredFields : field \notin signedFields
  IN [val |-> IF missing THEN "permerror" ELSE "pass",
      reason |-> IF missing THEN "some header fields are not signed" ELSE ""]

gates(chk, verif) ==
  LET signedFields == { CanonicalMIMEHeaderKey(verif.HeaderKeys[j]) :
                          j \in 1..Len(verif.HeaderKeys) }
      missing == \E field \in chk.requiredFields : field \notin signedFields
      limited == verif.BodyLength >= 0 /\ ~chk.allowBodySubset
  IN [val |-> IF limited \/ missing THEN "permerror" ELSE "pass",
      reason |-> IF limited THEN "body limit it used"
                 ELSE IF missing THEN "some header fields are not signed"
                 ELSE ""]

\* the body of  for _, verif := range verifications : e is CheckBody's err,
\* st = (res, goodSigs); ret is the result of a return inside the loop
loopIteration(chk, e, verif, st) ==
  IF verif.Err # Nil
  THEN LET reason == TrimPrefix(verif.Err.text)
           val1 == IF IsPermFail(e) THEN "permerror" ELSE "fail"
       IN IF IsTempFail(e) /\ ~chk.failOpen
          THEN [ret |-> CheckResult(TRUE, FALSE,
                          SMTPError(421, <<4, 7, 20>>,
                                    "Temporary error during DKIM verification", e),
                          Nil),
                res |-> st.res, goodSigs |-> st.goodSigs]
          ELSE [ret |-> Nil,
                res |-> [st.res EXCEPT !.AuthResult =
                           appendResult(@, DKIMResult(IF IsTempFail(e) THEN "temperror" ELSE val1,
                                                reason, verif.Domain, verif.Identifier))],
                goodSigs |-> st.goodSigs]
  ELSE LET g == gates(chk, verif)
       IN [ret |-> Nil,
           res |-> [st.res EXCEPT !.AuthResult =
                      appendResult(@, DKIMResult(g.val, g.reason, verif.Domain, verif.Identifier))],
           goodSigs |-> TRUE]

\* CheckBody after the loop
afterLoop_AlwaysBroken(chk, r, good) ==
  Apply(chk.brokenSigAction,
        [r EXCEPT !.Reason = SMTPError(550, <<5, 7, 20>>, "No passing DKIM signatures", Nil)])

afterLoop(chk, r, good) ==
  IF ~good
  THEN Apply(chk.brokenSigAction,
             [r EXCEPT !.Reason = SMTPError(550, <<5, 7, 20>>, "No passing DKIM signatures", Nil)])
  ELSE r

\* New: a Check without configuration
DKIMInit ==
  /\ c = Nil /\ dpc = "new" /\ nSigs = 0 /\ opens = 0 /\ openReaders = 0
  /\ verifyCalls = 0 /\ verifications = Nil /\ err = Nil /\ k = 1
  /\ res = Nil /\ goodSigs = FALSE /\ result = Nil
  /\ other = Nil

\* Check.Init
Init_ ==
  /\ dpc = "new"
  /\ \E cfg \in ConfigBlocks : c' = CheckInit(cfg)
  /\ dpc' = "ready"
  /\ UNCHANGED <<nSigs, opens, openReaders, verifyCalls, verifications, err, k,
                 res, goodSigs, result, dnsVars, other>>

\* Check.CheckStateForMsg, for a message whose header has n DKIM-Signature fields
CheckStateForMsg ==
  /\ dpc = "ready"
  /\ \E n \in 0..MaxSigs : nSigs' = n
  /\ dpc' = "CheckBody"
  /\ UNCHANGED <<c, opens, openReaders, verifyCalls, verifications, err, k,
                 res, goodSigs, result, dnsVars, other>>

\* CheckBody: if !header.Has("DKIM-Signature") { ... return }
CheckBodyNoSignature ==
  /\ dpc = "CheckBody" /\ nSigs = 0
  /\ result' = Apply(c.noSigAction, NoSigResult)
  /\ dpc' = "returned"
  /\ UNCHANGED <<c, nSigs, opens, openReaders, verifyCalls, verifications, err, k,
                 res, goodSigs, dnsVars, other>>

\* CheckBody: bodyRdr, err := body.Open()
CheckBodyOpen ==
  /\ dpc = "CheckBody" /\ nSigs > 0
  /\ opens' = opens + 1
  /\ \E e \in {Nil, Error("open: input/output error")} :
       /\ err' = e
       /\ IF e # Nil
          THEN /\ result' = CheckResult(TRUE, FALSE,
                               TemporaryErr(e, "Internal I/O error"), Nil)
               /\ dpc' = "returned"
               /\ UNCHANGED openReaders
          ELSE /\ openReaders' = openReaders + 1
               /\ dpc' = "Verify"
               /\ UNCHANGED result
  /\ UNCHANGED <<c, nSigs, verifyCalls, verifications, k, res, goodSigs, dnsVars, other>>

\* CheckBody: verifications, err := dkim.Verify(...) up to the loop
CheckBodyVerify ==
  /\ dpc = "Verify"
  /\ verifyCalls' = verifyCalls + 1
  /\ \E v \in { [list |-> Nil, err |-> Error("dkim: malformed header")] }
              \cup { [list |-> l, err |-> Nil] : l \in VerificationLists(nSigs) } :
       /\ verifications' = v.list
       /\ err' = v.err
       /\ IF v.err # Nil
          THEN /\ result' = CheckResult(TRUE, FALSE,
                               TemporaryErr(v.err, "Internal error during policy check"), Nil)
               /\ dpc' = "returned"
               /\ UNCHANGED <<res, goodSigs, k>>
          ELSE /\ goodSigs' = FALSE
               /\ res' = CheckResult(FALSE, FALSE, Nil, <<>>)
               /\ k' = 1
               /\ dpc' = "loop"
               /\ UNCHANGED result
  /\ UNCHANGED <<c, nSigs, opens, openReaders, dnsVars, other>>

\* CheckBody: one iteration of the loop over verifications
CheckBodyIteration ==
  /\ dpc = "loop" /\ k <= Len(verifications)
  /\ LET st == loopIteration(c, err, verifications[k], [res |-> res, goodSigs |-> goodSigs]) IN
       IF st.ret # Nil
       THEN /\ result' = st.ret /\ dpc' = "returned"
            /\ UNCHANGED <<res, goodSigs, k>>
       ELSE /\ res' = st.res /\ goodSigs' = st.goodSigs /\ k' = k + 1
            /\ UNCHANGED <<result, dpc>>
  /\ UNCHANGED <<c, nSigs, opens, openReaders, verifyCalls, verifications, err, dnsVars, other>>

\* CheckBody: from the end of the loop to the return
CheckBodyReturn ==
  /\ dpc = "loop" /\ k > Len(verifications)
  /\ result' = afterLoop(c, res, goodSigs)
  /\ dpc' = "returned"
  /\ UNCHANGED <<c, nSigs, opens, openReaders, verifyCalls, verifications, err, k,
                 res, goodSigs, dnsVars, other>>

\* dkimCheckState.Close: the state of the message is dropped
Close ==
  /\ dpc = "returned"
  /\ dpc' = "ready"
  /\ nSigs' = 0 /\ opens' = 0 /\ openReaders' = 0 /\ verifyCalls' = 0
  /\ verifications' = Nil /\ err' = Nil /\ k' = 1 /\ res' = Nil
  /\ goodSigs' = FALSE /\ result' = Nil
  /\ UNCHANGED <<c, dnsVars, other>>

DKIMNext ==
  \/ Init_
  \/ CheckStateForMsg
  \/ CheckBodyNoSignature
  \/ CheckBodyOpen
  \/ CheckBodyVerify
  \/ CheckBodyIteration
  \/ CheckBodyReturn
  \/ Close

\* the dkimCheckState and the locals of the CheckBody invocation that is running
invocation ==
  [dpc |-> dpc, nSigs |-> nSigs, opens |-> opens, openReaders |-> openReaders,
   verifyCalls |-> verifyCalls, verifications |-> verifications, err |-> err,
   k |-> k, res |-> res, goodSigs |-> goodSigs, result |-> result]

\* the state CheckStateForMsg starts an invocation from
newInvocation ==
  [dpc |-> "ready", nSigs |-> 0, opens |-> 0, openReaders |-> 0,
   verifyCalls |-> 0, verifications |-> Nil, err |-> Nil,
   k |-> 1, res |-> Nil, goodSigs |-> FALSE, result |-> Nil]

\* goodSigs := false declares a local: the invocation resumed from o finds the
\* value it left
ownGoodSigs_Shared(o) == goodSigs

ownGoodSigs(o) == o.goodSigs

\* the scheduler suspends the running invocation and resumes the other one
Switch ==
  /\ other' = invocation
  /\ dpc' = other.dpc /\ nSigs' = other.nSigs /\ opens' = other.opens
  /\ openReaders' = other.openReaders /\ verifyCalls' = other.verifyCalls
  /\ verifications' = other.verifications /\ err' = other.err /\ k' = other.k
  /\ res' = other.res /\ result' = other.result
  /\ goodSigs' = ownGoodSigs(other)
  /\ UNCHANGED <<c, dnsVars>>

\* The two invocations are given the same message and the same answers of
\* body.Open and dkim.Verify: what the other one was given, this one is given.
SameHeader == CheckStateForMsg /\ (other.dpc # "ready" => nSigs' = other.nSigs)
SameBody == CheckBodyOpen /\ (other.opens = 1 => openReaders' = other.openReaders)
SameVerifications ==
  /\ CheckBodyVerify
  /\ other.verifyCalls = 1 =>
       /\ err' = other.err
       /\ other.err = Nil => verifications' = other.verifications

\* the configuration blocks of the Checks that run two invocations
TwiceBlocks ==
  { cfg \in ConfigBlocks : /\ cfg.no_sig_action \in {Absent, Directive("reject")}
                           /\ cfg.broken_sig_action \in {Absent, Directive("quarantine")} }

\* a Check after New and Init, with two invocations about to start
InitTwice ==
  /\ DNSInit /\ Servers = <<"127.0.0.1">>
  /\ \E cfg \in TwiceBlocks : c = CheckInit(cfg)
  /\ dpc = "ready" /\ nSigs = 0 /\ opens = 0 /\ openReaders = 0
  /\ verifyCalls = 0 /\ verifications = Nil /\ err = Nil /\ k = 1
  /\ res = Nil /\ goodSigs = FALSE /\ result = Nil
  /\ other = newInvocation

TwiceNext ==
  \/ SameHeader
  \/ CheckBodyNoSignature
  \/ SameBody
  \/ SameVerifications
  \/ CheckBodyIteration
  \/ CheckBodyReturn
  \/ Switch

SpecDKIMTwice == InitTwice /\ [][TwiceNext]_vars

InitDNS == DNSInit /\ DKIMInit
InitDKIM == DKIMInit /\ DNSInit /\ Servers = <<"127.0.0.1">>

SpecDNS == InitDNS /\ [][DNSNext]_vars
SpecDKIM == InitDKIM /\ [][DKIMNext]_vars

(***************************************************************************)
(* Properties of ExtResolver (checked under SpecDNS)                       *)
(***************************************************************************)

SingleQueryFns == {"AuthLookupAddr", "AuthLookupMX", "AuthLookupTXT", "AuthLookupTLSA"}
LoopbackAddrs == {"127.0.0.1", "::1"}

\* the lookup in flight has returned (ad, records, nil)
ReturnedOK == pc = "done" /\ ret.err = Nil

\* C1: a single-query lookup that returns without error reports
\* AD = (AD of the raw response of the answering server) AND (that server is a
\* loopback address): false for every non-loopback responder, the raw flag for
\* a loopback responder.
C1_ADOnlyFromLoopback ==
  (ReturnedOK /\ fn \in SingleQueryFns) =>
    /\ ret.ad = (wire.resp.AuthenticatedData /\ wire.srv \in LoopbackAddrs)
    /\ (wire.srv \notin LoopbackAddrs => ret.ad = FALSE)
    /\ (wire.srv \in LoopbackAddrs => ret.ad = wire.resp.AuthenticatedData)

\* a non-loopback server set AD in its raw response and the lookup reports false
C1_Witness ==
  /\ ReturnedOK /\ fn = "AuthLookupMX"
  /\ wire.srv = "192.0.2.53" /\ wire.resp.AuthenticatedData /\ ~ret.ad

\* a loopback server set AD in its raw response and the lookup reports true
C1_WitnessLoopback ==
  /\ ReturnedOK /\ fn = "AuthLookupTLSA"
  /\ wire.srv = "::1" /\ wire.resp.AuthenticatedData /\ ret.ad

\* exchange of m against a resolver configured with the server srv alone, which
\* answers x
exchangeAlone(m, srv, x) == loopBody(m, srv, x, [resp |-> Nil, lastErr |-> Nil])

\* C2: fail-over. When every server before Sk failed and Sk answered with RCODE
\* success, exchange returns what it returns for the server list <<Sk>> alone
\* (nil error: the earlier errors are discarded), and so does the lookup.
C2_FailOverEqualsSingleServer ==
  (pc \in {"exchange", "done"} /\ brk) =>
    LET alone == exchangeAlone(msg, wire.srv, [resp |-> wire.resp, err |-> wire.err]) IN
    /\ wire.idx = idx
    /\ resp = alone.resp /\ lastErr = alone.lastErr /\ lastErr = Nil
    /\ (pc = "done" /\ fn \in SingleQueryFns) =>
         /\ ret = SingleResult(msg.Question.Qtype, alone.resp, alone.lastErr)
         /\ ret.err = Nil

\* the second server answered after the first one failed, and records came back
C2_Witness ==
  /\ ReturnedOK /\ fn = "AuthLookupTXT" /\ brk /\ idx = 2
  /\ contacted = <<1, 2>> /\ Len(ret.recs) = 2

\* the addresses of the records of type t in an answer section, in order
IPsOf(answer, t) ==
  LET sel == SelectSeq(answer, LAMBDA rr : rr.Rrtype = t) IN
  [j \in 1..Len(sel) |-> IF t = "AAAA" THEN sel[j].AAAA ELSE sel[j].A]

\* C3: the combined lookup asks AAAA first, then A. Both legs succeed: AD is the
\* AND of the legs' AD flags and the answers are the AAAA addresses followed by
\* the A addresses. A leg fails: that leg's error, AD false, no addresses; after
\* a failed AAAA leg the A question is never asked.
C3_CombinedLookup ==
  (pc = "done" /\ fn \in {"AuthLookupIPAddr", "AuthLookupHost"}) =>
    /\ Len(legs) >= 1 /\ queries[1] = "AAAA"
    /\ IF legs[1].err # Nil
       THEN ret = Return(FALSE, Nil, legs[1].err) /\ queries = <<"AAAA">> /\ Len(legs) = 1
       ELSE /\ queries = <<"AAAA", "A">> /\ Len(legs) = 2
            /\ IF legs[2].err # Nil
               THEN ret = Return(FALSE, Nil, legs[2].err)
               ELSE LET ips == IPsOf(legs[1].resp.Answer, "AAAA") \o IPsOf(legs[2].resp.Answer, "A") IN
                    /\ ret.err = Nil
                    /\ ret.ad = (legs[1].resp.AuthenticatedData /\ legs[2].resp.AuthenticatedData)
                    /\ Len(ret.recs) = Len(ips)
                    /\ \A j \in 1..Len(ips) :
                         IF fn = "AuthLookupHost" THEN ret.recs[j] = ips[j]
                         ELSE ret.recs[j].IP = ips[j]

\* both legs answered, only the AAAA leg was authenticated, both gave addresses
C3_Witness ==
  /\ ReturnedOK /\ fn = "AuthLookupIPAddr" /\ Len(legs) = 2
  /\ legs[1].resp.AuthenticatedData /\ ~legs[2].resp.AuthenticatedData /\ ~ret.ad
  /\ Len(ret.recs) = 3 /\ ret.recs[1].IP = "2001:db8::2" /\ ret.recs[3].IP = "192.0.2.1"

\* the A leg failed after an AAAA leg that had given addresses
C3_WitnessALegFails ==
  /\ pc = "done" /\ fn = "AuthLookupHost" /\ Len(legs) = 2
  /\ legs[2].err # Nil /\ Len(legs[1].resp.Answer) > 0 /\ ret.recs = Nil

\* C10: once the exchange with server Si failed because the context was
\* cancelled or its deadline passed, no server after Si is contacted.
C10_NoFallThroughAfterCancel ==
  ctxFailedAt # 0 => \A j \in 1..Len(contacted) : contacted[j] <= ctxFailedAt

(***************************************************************************)
(* Properties of verify_dkim (checked under SpecDKIM)                      *)
(***************************************************************************)

\* CheckBody returned after classifying every verification
LoopCompleted == dpc = "returned" /\ nSigs > 0 /\ err = Nil /\ k > Len(verifications)

\* the signature of verification v passes in full under the Check chk
FullPass(chk, v) ==
  /\ v.Err = Nil
  /\ \A f \in chk.requiredFields :
       \E j \in 1..Len(v.HeaderKeys) : CanonicalMIMEHeaderKey(v.HeaderKeys[j]) = f
  /\ (v.BodyLength < 0 \/ chk.allowBodySubset)

SomeFullPass == \E i \in 1..Len(verifications) : FullPass(c, verifications[i])

\* C4: a header without DKIM-Signature gets the no-signature action applied to a
\* result with exactly one record, of value none, and the reason "No DKIM
\* signatures" (550, 5.7.20); the body is never opened and the verifier never
\* invoked.
C4_NoSignatureBranch ==
  (dpc = "returned" /\ nSigs = 0) =>
    /\ Len(result.AuthResult) = 1
    /\ result.AuthResult[1].Value = "none"
    /\ result.Reason.Code = 550 /\ result.Reason.EnhancedCode = <<5, 7, 20>>
    /\ result.Reason.Message = "No DKIM signatures"
    /\ result.Reject = c.noSigAction.Reject
    /\ result.Quarantine = c.noSigAction.Quarantine
    /\ opens = 0 /\ openReaders = 0 /\ verifyCalls = 0

\* an unsigned message is rejected by no_sig_action reject
C4_Witness ==
  /\ dpc = "returned" /\ nSigs = 0 /\ c.block.no_sig_action = Directive("reject")
  /\ result.Reject /\ Len(result.AuthResult) = 1

\* C5: when the loop completes and no signature passed in full, the verdict is
\* the broken-signature action applied to the result with the reason
\* "No passing DKIM signatures".
C5_BrokenActionWhenNoFullPass ==
  (LoopCompleted /\ ~SomeFullPass) =>
    /\ result.Reason # Nil
    /\ result.Reason.Message = "No passing DKIM signatures"
    /\ result.Reject = c.brokenSigAction.Reject
    /\ result.Quarantine = c.brokenSigAction.Quarantine

\* the first verification whose error is a temporary failure, 0 when none is
FirstTempFail ==
  IF \E i \in 1..Len(verifications) : IsTempFail(verifications[i].Err)
  THEN CHOOSE i \in 1..Len(verifications) :
         /\ IsTempFail(verifications[i].Err)
         /\ \A j \in 1..(i - 1) : ~IsTempFail(verifications[j].Err)
  ELSE 0

\* C6: a signature whose failure is temporary: fail-open disabled, CheckBody
\* returns a rejecting verdict with status 421 (4.7.20) at that signature and
\* classifies none after it; fail-open enabled, the signature gets a temperror
\* record, the remaining ones are classified and the broken-signature action
\* decides.
C6_TemporaryFailure ==
  (dpc = "returned" /\ nSigs > 0 /\ err = Nil /\ FirstTempFail # 0) =>
    IF ~c.failOpen
    THEN /\ result.Reject
         /\ result.Reason.Code = 421 /\ result.Reason.EnhancedCode = <<4, 7, 20>>
         /\ k = FirstTempFail
    ELSE /\ k > Len(verifications)
         /\ Len(result.AuthResult) = Len(verifications)
         /\ result.AuthResult[FirstTempFail].Value = "temperror"

\* C7: the record of an outcome that carries an error has the value fail, and
\* permerror when the error is a permanent signature defect.
C7_ErrorRecordValue ==
  LoopCompleted =>
    \A i \in 1..Len(verifications) :
      LET v == verifications[i] IN
      /\ (v.Err # Nil /\ v.Err.class = "failError") => result.AuthResult[i].Value = "fail"
      /\ (v.Err # Nil /\ v.Err.class = "permFailError") =>
           result.AuthResult[i].Value = "permerror"

\* C8: with one signature passing in full the verdict has Reject false,
\* Quarantine false and no Reason, whatever the broken-signature action and the
\* other outcomes are; every signature still has its record, the value pass
\* exactly for the fully passing ones.
C8_OnePassAccepts ==
  (dpc = "returned" /\ nSigs > 0 /\ err = Nil /\ SomeFullPass) =>
    /\ ~result.Reject /\ ~result.Quarantine /\ result.Reason = Nil
    /\ Len(result.AuthResult) = Len(verifications)
    /\ \A i \in 1..Len(verifications) :
         /\ result.AuthResult[i].Domain = verifications[i].Domain
         /\ (result.AuthResult[i].Value = "pass") = FullPass(c, verifications[i])

\* a failed signature next to a passing one under broken_sig_action reject
C8_Witness ==
  /\ dpc = "returned" /\ nSigs = 2 /\ err = Nil
  /\ c.brokenSigAction.Reject
  /\ verifications[1].Err # Nil /\ FullPass(c, verifications[2])
  /\ result.AuthResult[1].Value = "fail" /\ result.AuthResult[2].Value = "pass"
  /\ ~result.Reject

\* exactly one signature, passing in full: exactly one record, a pass
C8_WitnessSingle ==
  /\ dpc = "returned" /\ nSigs = 1 /\ err = Nil /\ SomeFullPass
  /\ Len(result.AuthResult) = 1 /\ result.AuthResult[1].Value = "pass"

\* neither broken_sig_action nor no_sig_action is given
DefaultActions ==
  c.block.broken_sig_action = Absent /\ c.block.no_sig_action = Absent

\* C9 as stated: with the default actions an unsigned message, and a message
\* none of whose signatures passes, are rejected.
C9_DefaultsReject ==
  (dpc = "returned" /\ DefaultActions /\ (nSigs = 0 \/ (LoopCompleted /\ ~SomeFullPass))) =>
    result.Reject

\* C9 amended: the default of both actions is the zero FailAction, which
\* neither rejects nor quarantines: with the default actions the verdict of the
\* no-signature branch and of a completed verification loop has Reject false and
\* Quarantine false.
C9_DefaultsIgnore ==
  (dpc = "returned" /\ DefaultActions /\ (nSigs = 0 \/ LoopCompleted)) =>
    /\ ~c.noSigAction.Reject /\ ~c.noSigAction.Quarantine
    /\ ~c.brokenSigAction.Reject /\ ~c.brokenSigAction.Quarantine
    /\ ~result.Reject /\ ~result.Quarantine

\* an unsigned message under the default actions: a none record, no rejection
C9_Witness ==
  /\ dpc = "returned" /\ DefaultActions /\ nSigs = 0
  /\ result.Reason # Nil /\ ~result.Reject /\ ~result.Quarantine

\* a message whose only signature failed under the default actions
C9_WitnessBroken ==
  /\ LoopCompleted /\ DefaultActions /\ ~goodSigs
  /\ result.Reason # Nil /\ ~result.Reject /\ ~result.Quarantine

\* C11: in every state in which CheckBody has returned, every reader obtained
\* from body.Open() during the invocation has been closed.
C11_ReaderReleased ==
  dpc = "returned" => openReaders = 0

(***************************************************************************)
(* Properties of ExtResolver, continued (checked under SpecDNS)            *)
(***************************************************************************)

\* the lookup in flight returned the RCodeError of the last answer
ReturnedRCodeError == pc = "done" /\ ret.err # Nil /\ ret.err.kind = "RCodeError"

\* C12: the RCodeError a lookup returns for a non-success RCODE is "not found"
\* exactly for name error (NXDOMAIN), temporary exactly for server failure
\* (SERVFAIL), and permanent for format error, name error, not-implemented and
\* refused; an error that is no RCodeError is not "not found".
C12_RCodeClassification ==
  /\ ReturnedRCodeError =>
       LET rc == wire.resp.Rcode IN
       /\ rc \in FailRcodes /\ ret.err.Code = rc
       /\ IsNotFound(ret.err) = (rc = "RcodeNameError")
       /\ Temporary(ret.err) = (rc = "RcodeServerFailure")
       /\ rc \in {"RcodeFormatError", "RcodeNameError", "RcodeNotImplemented",
                   "RcodeRefused"} => ~Temporary(ret.err)
  /\ (pc = "done" /\ ret.err # Nil /\ ret.err.kind # "RCodeError") => ~IsNotFound(ret.err)

\* a lookup ended on SERVFAIL: temporary, not "not found"
C12_Witness ==
  /\ ReturnedRCodeError /\ wire.resp.Rcode = "RcodeServerFailure"
  /\ Temporary(ret.err) /\ ~IsNotFound(ret.err)

\* a lookup ended on NXDOMAIN: "not found", permanent
C12_WitnessNotFound ==
  /\ ReturnedRCodeError /\ wire.resp.Rcode = "RcodeNameError"
  /\ ~Temporary(ret.err) /\ IsNotFound(ret.err)

\* C16: within one exchange the servers are contacted one after the other in
\* list order, each entry at most once, and none after a server answered with
\* RCODE success: at most Len(Servers) attempts, no retry.
C16_SequentialAtMostOnce ==
  pc \in {"exchange", "done", "panic"} =>
    /\ Len(contacted) <= Len(Servers)
    /\ \A j \in 1..Len(contacted) : contacted[j] = j
    /\ Len(contacted) > 0 =>
         /\ wire.idx = Len(contacted)
         /\ brk = (wire.err = Nil /\ wire.resp.Rcode = "RcodeSuccess")
    /\ (pc = "exchange" /\ ~brk) => idx = Len(contacted) + 1
    /\ brk => idx = Len(contacted)

\* the second server of two answered with success after the first had failed
C16_Witness ==
  /\ pc = "done" /\ Len(Servers) = 2 /\ brk /\ contacted = <<1, 2>>

\* the first server of two answered with success: the second is not contacted
C16_WitnessStop ==
  /\ pc = "done" /\ Len(Servers) = 2 /\ brk /\ contacted = <<1>>

\* the error the latest ExchangeContext call stands for
WireError ==
  IF wire.err # Nil THEN wire.err
  ELSE RCodeError(msg.Question.Name, wire.resp.Rcode)

\* C17: when every configured server fails, the lookup returns the error of the
\* last server of the list, with AD false and no records.
C17_LastErrorSurfaces ==
  (pc = "done" /\ Len(contacted) > 0 /\ ~brk) =>
    /\ wire.idx = Len(Servers)
    /\ ret = Return(FALSE, Nil, WireError)

\* two servers failed differently and the caller got the second one's error
C17_Witness ==
  /\ pc = "done" /\ fn = "AuthLookupTXT" /\ contacted = <<1, 2>> /\ ~brk
  /\ wire.err = Nil /\ wire.resp.Rcode = "RcodeNameError"
  /\ ret.err = RCodeError("example.org.", "RcodeNameError") /\ ret.recs = Nil /\ ~ret.ad

\* C20: exchange returns a nil error only together with a non-nil response that
\* a configured server sent with RCODE success, so no AuthLookup* call
\* dereferences a missing response.
C20_NilErrorMeansAnswer ==
  /\ (exchangeReturned /\ lastErr = Nil) =>
       /\ resp # Nil /\ resp.Rcode = "RcodeSuccess"
       /\ Len(contacted) > 0 /\ wire.resp.Rcode = "RcodeSuccess"
  /\ pc # "panic"

(***************************************************************************)
(* Properties of verify_dkim, continued (checked under SpecDKIM)           *)
(***************************************************************************)

\* the header field name in lower case
LowerField(f) ==
  CASE f \in {"from", "From", "FROM"}          -> "from"
    [] f \in {"subject", "Subject", "SUBJECT"} -> "subject"
    [] f \in {"date", "Date"}                  -> "date"
    [] OTHER                                   -> f

\* the required header fields as the configuration block names them
ConfiguredRequired ==
  IF c.block.required_fields.given
  THEN { c.block.required_fields.arg[j] : j \in 1..Len(c.block.required_fields.arg) }
  ELSE {"From", "Subject"}

\* some required field is not among the fields verification v covers
MissesRequired(v) ==
  \E f \in ConfiguredRequired :
    \A j \in 1..Len(v.HeaderKeys) : LowerField(v.HeaderKeys[j]) # LowerField(f)

\* the body-length gate applies to verification v
BodyLimited(v) == v.BodyLength >= 0 /\ ~c.allowBodySubset

\* C14: an outcome without error that declares a body length, under a
\* configuration that disallows body subsets, gets a record with value
\* permerror and reason "body limit is used"; otherwise this gate does not
\* change the record.
C14_BodyLengthGate ==
  LoopCompleted =>
    \A i \in 1..Len(verifications) :
      LET v == verifications[i]  rec == result.AuthResult[i] IN
      v.Err = Nil =>
        IF BodyLimited(v)
        THEN rec.Value = "permerror" /\ rec.Reason = "body limit is used"
        ELSE /\ rec.Reason # "body limit is used"
             /\ rec.Value = IF MissesRequired(v) THEN "permerror" ELSE "pass"

\* C15: an outcome without error, to which the body-length gate does not apply,
\* gets value permerror and reason "some header fields are not signed" exactly
\* when a configured required field is absent from the fields the signature
\* covers; otherwise the record stays the provisional pass.
C15_RequiredFieldsGate ==
  LoopCompleted =>
    \A i \in 1..Len(verifications) :
      LET v == verifications[i]  rec == result.AuthResult[i] IN
      (v.Err = Nil /\ ~BodyLimited(v)) =>
        /\ (rec.Value = "permerror" /\ rec.Reason = "some header fields are not signed")
             = MissesRequired(v)
        /\ ~MissesRequired(v) => (rec.Value = "pass" /\ rec.Reason = "")

\* a signature over from and SUBJECT satisfies the default required fields, and
\* a signature over From alone does not
C15_Witness ==
  /\ LoopCompleted /\ nSigs = 2 /\ ~c.block.required_fields.given
  /\ verifications[1].Err = Nil /\ verifications[1].HeaderKeys = <<"from", "SUBJECT">>
  /\ verifications[1].BodyLength < 0 /\ result.AuthResult[1].Value = "pass"
  /\ verifications[2].Err = Nil /\ verifications[2].HeaderKeys = <<"From">>
  /\ verifications[2].BodyLength < 0
  /\ result.AuthResult[2].Reason = "some header fields are not signed"

\* C18: when opening the body fails or the verifier itself returns an error,
\* the verdict has Reject true, a reason marked temporary and no records,
\* whatever the actions and the fail-open switch are; after a failed open the
\* verifier is not invoked, and it is invoked at most once per CheckBody call.
C18_MachineryFailure ==
  /\ verifyCalls <= 1 /\ opens <= 1
  /\ (dpc = "returned" /\ err # Nil) =>
       /\ result.Reject /\ ~result.Quarantine
       /\ result.Reason.temporary /\ result.Reason.Err = err
       /\ result.AuthResult = Nil
       /\ (verifyCalls = 0) = (err = Error("open: input/output error"))
       /\ opens = 1

\* the verifier failed under broken_sig_action ignore and fail_open
C18_Witness ==
  /\ dpc = "returned" /\ err # Nil /\ verifyCalls = 1
  /\ c.failOpen /\ c.block.broken_sig_action = Directive("ignore")
  /\ result.Reject /\ result.Reason.temporary

\* opening the body failed: the verifier was not invoked
C18_WitnessOpen ==
  /\ dpc = "returned" /\ err # Nil /\ verifyCalls = 0 /\ opens = 1 /\ result.Reject

\* the first n records of res belong to the first n verifications
RecordsFollowOutcomes(rs, n) ==
  /\ Len(rs) = n
  /\ \A i \in 1..n : /\ rs[i].Domain = verifications[i].Domain
                       /\ rs[i].Identifier = verifications[i].Identifier

\* a step inside the loop keeps every record already appended
AppendOnly ==
  (dpc = "loop" /\ dpc' \in {"loop", "returned"}) =>
    /\ Len(res'.AuthResult) >= Len(res.AuthResult)
    /\ SubSeq(res'.AuthResult, 1, Len(res.AuthResult)) = res.AuthResult
    /\ dpc' = "returned" => SubSeq(result'.AuthResult, 1, Len(res.AuthResult)) = res.AuthResult

\* C19: after a completed loop the result has one record per verification, the
\* i-th carrying Domain and Identifier of the i-th verification, and a record
\* once appended is never modified or removed.
C19_OneRecordPerOutcomeInOrder ==
  /\ [](dpc = "loop" => RecordsFollowOutcomes(res.AuthResult, k - 1))
  /\ [](LoopCompleted => RecordsFollowOutcomes(result.AuthResult, Len(verifications)))
  /\ [][AppendOnly]_vars

\* two signatures, the first failed and the second passed: records in that order
C19_Witness ==
  /\ LoopCompleted /\ nSigs = 2
  /\ result.AuthResult[1].Domain = "list.example" /\ result.AuthResult[1].Value = "fail"
  /\ result.AuthResult[2].Domain = "author.example" /\ result.AuthResult[2].Value = "pass"

(***************************************************************************)
(* Two invocations on one Check (checked under SpecDKIMTwice)              *)
(***************************************************************************)

BothReturned == dpc = "returned" /\ other.dpc = "returned"

\* C13: CheckBody is a function of the configuration, the message and the
\* verifier's outcomes: two invocations on the same Check and the same input,
\* one after the other or interleaved in any way, return the same records and
\* the same verdict, and no step of an invocation writes to the Check.
C13_Deterministic ==
  /\ [](BothReturned => result = other.result)
  /\ [][c' = c]_vars

\* both invocations classified two signatures and returned
C13_Witness ==
  /\ BothReturned /\ nSigs = 2 /\ err = Nil /\ other.opens = 1
  /\ Len(result.AuthResult) = 2 /\ Len(other.result.AuthResult) = 2
  /\ result.AuthResult[2].Value = "pass" /\ result.Reason = Nil

(***************************************************************************)
(* Soundness of pass (checked under SpecDKIM)                              *)
(***************************************************************************)

\* the outcome of verification v entitles its record to pass
SoundPass(v) == v.Err = Nil /\ ~MissesRequired(v) /\ ~BodyLimited(v)

\* C21: in every result CheckBody returns, a record is pass only if its
\* verification carried no error, covers every configured required field and
\* either declares no body length or body subsets are allowed; the record of a
\* verification with an error is never pass. Results of the early returns
\* carry no pass record at all.
C21_PassIsSound ==
  dpc = "returned" =>
    IF err # Nil THEN result.AuthResult = Nil
    ELSE IF nSigs = 0
    THEN \A i \in 1..Len(result.AuthResult) : result.AuthResult[i].Value # "pass"
    ELSE IF LoopCompleted
    THEN /\ Len(result.AuthResult) <= Len(verifications)
         /\ \A i \in 1..Len(result.AuthResult) :
              /\ result.AuthResult[i].Value = "pass" => SoundPass(verifications[i])
              /\ verifications[i].Err # Nil => result.AuthResult[i].Value # "pass"
    ELSE result.AuthResult = Nil

\* required_fields names from in lower case and body subsets are refused: of two
\* verifications without error the one declaring a body length is refused
\* and the one over From alone passes
C21_Witness ==
  /\ LoopCompleted /\ nSigs = 2
  /\ c.block.required_fields.given /\ ~c.allowBodySubset
  /\ verifications[1].Err = Nil /\ verifications[1].BodyLength >= 0
  /\ result.AuthResult[1].Value = "permerror"
  /\ verifications[2].Err = Nil /\ verifications[2].HeaderKeys = <<"From">>
  /\ SoundPass(verifications[2]) /\ result.AuthResult[2].Value = "pass"

\* a verification with an error next to one that passes: only the second
\* record is pass
C21_WitnessError ==
  /\ LoopCompleted /\ nSigs = 2 /\ verifications[1].Err # Nil
  /\ result.AuthResult[1].Value # "pass" /\ result.AuthResult[2].Value = "pass"

====
